---- MODULE Spec2Model ----
(***************************************************************************)
(* Request handling of the three reference services (backend, frontend,    *)
(* trial): routing, the spans a handler opens, the store operations of     *)
(* POST /star, the batch loop of GET /trace and the status sent back.      *)
(*                                                                         *)
(* A request is a process r with a program counter pc[r]; requests of one  *)
(* service run concurrently and share the store.  The store, the tracer    *)
(* and the upstream job listing are the environment: an insert or a find   *)
(* may raise, a find may return nothing, the listing fetch may raise.      *)
(* JSON values are tokens (a number is the text of its literal): the       *)
(* handlers copy them and never compute with them.                         *)
(***************************************************************************)
EXTENDS Naturals, Sequences, FiniteSets, TLC

\* ---- bounds ----
MaxReq == 2        \* requests in flight in one service
MaxJobs == 3       \* length of the upstream job listing

Reqs == 1 .. MaxReq

\* ---- values ----
Services == {"backend", "frontend", "trial"}

FixedRoutes == {"/success-response", "/client-error", "/server-error"}

\* @app.route registrations of each service
Routes(s) ==
  CASE s = "backend"  -> {"/", "/api", "/star"} \cup FixedRoutes
    [] s = "frontend" -> {"/"} \cup FixedRoutes
    [] s = "trial"    -> {"/", "/trace"} \cup FixedRoutes

\* Python's None
None == "None"

Restrict(f, K) == [k \in K |-> f[k]]

Payloads ==
  { [name |-> "Sirius", distance |-> "8.6"],
    [name |-> "Vega", distance |-> "25.04"] }

StarKeys == {"name", "distance"}

\* request.json of a POST /star: a payload with any of its keys left out
StarBodies == { Restrict(p, K) : p \in Payloads, K \in SUBSET StarKeys }

EmptyBody == Restrict([name |-> None], {})

\* the bodies a client may send to a route
Bodies(route) ==
  IF route = "/star" THEN StarBodies
  ELSE IF route \in FixedRoutes THEN {EmptyBody, [name |-> "Sirius", distance |-> "8.6"]}
  ELSE {EmptyBody}

\* the keys the /trace handler reads of a job posting, in the order of the try block
JobKeys ==
  << "description", "company", "company_url", "created_at", "how_to_apply",
     "location", "title", "type", "url" >>

JobKeySet == { JobKeys[k] : k \in 1 .. Len(JobKeys) }

\* the keys a posting of the listing may lack
MissingChoices == { {}, {"company"}, {"title"} }

\* description texts, by position in the listing
DescText(n) ==
  IF n % 2 = 1 THEN << "<", "b", ">", "p", "<", "/", "b", ">" >>
  ELSE << "a", "<", ">", "b" >>

\* posting n of the listing, lacking the keys of miss
Posting(n, miss) ==
  [ k \in JobKeySet \ miss |-> IF k = "description" THEN DescText(n) ELSE n ]

Listings ==
  UNION { { [ n \in 1 .. len |-> Posting(n, m[n]) ] : m \in [1 .. len -> MissingChoices] }
          : len \in 0 .. MaxJobs }

VARIABLES
  service,     \* the service this process is
  upstream,    \* the listing jobs.github.com answers with
  pc,          \* pc[r]: where request r is
  req,         \* req[r]: route and body of request r
  ctx,         \* ctx[r]: spans, current span and event log of request r
  name,        \* add_star's local name
  distance,    \* add_star's local distance
  star_id,     \* add_star's local star_id
  new_star,    \* add_star's local new_star: {} is None, {d} a document
  jobs_info,   \* trace's local jobs_info
  item,        \* trace's position in res.json()
  store,       \* mongo.db.stars
  nextId,      \* the ObjectId the next insert is given
  response     \* response[r]: status and body sent for request r

vars ==
  << service, upstream, pc, req, ctx, name, distance, star_id, new_star,
     jobs_info, item, store, nextId, response >>

starLocals == << name, distance, star_id, new_star >>
traceLocals == << jobs_info, item >>
env == << service, upstream >>

\* ---- dictionaries ----

\* a lookup that never raises (d.get(k))
KeyError_never(d, k) == FALSE

\* d[k] raises KeyError
KeyError(d, k) == k \notin DOMAIN d

\* the value d[k] evaluates to
GetItem(d, k) == IF k \in DOMAIN d THEN d[k] ELSE None

\* ---- tracer ----

Ev(op, n, res) == [op |-> op, n |-> n, res |-> res]

EmptyCtx == [spans |-> << >>, current |-> 0, events |-> << >>]

Emit(c, e) == [c EXCEPT !.events = Append(@, e)]

\* a span started under parent par: it joins par's trace, or roots a new one
NewSpan(c, nm, par) ==
  [ name |-> nm, parent |-> par,
    trace |-> IF par = 0 THEN Len(c.spans) + 1 ELSE c.spans[par].trace ]

\* tracer.start_span(nm): a child of the current span; the current span stays
start_span(c, nm) ==
  [ spans |-> Append(c.spans, NewSpan(c, nm, c.current)),
    current |-> c.current,
    events |-> Append(c.events, Ev("start", Len(c.spans) + 1, nm)) ]

\* tracer.start_as_current_span(nm): a child of the current span, made current
start_as_current_span(c, nm) ==
  [ start_span(c, nm) EXCEPT !.current = Len(c.spans) + 1 ]

\* leaving the with-block of span s opened by start_span: the span ends
exit_span(c, s) == Emit(c, Ev("end", s, c.spans[s].name))

\* the current span is handed back without being ended
exit_current_open(c) == [c EXCEPT !.current = c.spans[c.current].parent]

\* leaving the with-block of the current span: it ends, its parent is current again
exit_current(c) ==
  [ exit_span(c, c.current) EXCEPT !.current = c.spans[c.current].parent ]

\* ---- responses ----

NoResponse == [status |-> 0, body |-> ""]

\* the response is produced, then the request's root span ends
Finalize(c, status) == exit_current(Emit(c, Ev("respond", status, "")))

Send(r, c, status, body) ==
  /\ pc' = [pc EXCEPT ![r] = "done"]
  /\ response' = [response EXCEPT ![r] = [status |-> status, body |-> body]]
  /\ ctx' = [ctx EXCEPT ![r] = Finalize(c, status)]

\* an exception is swallowed and answered as a success
Raise_ok(r, c) == Send(r, c, 200, "Internal Server Error")

\* an exception leaves the view function: Flask answers 500
Raise(r, c) == Send(r, c, 500, "Internal Server Error")

\* ---- initial state ----

Init ==
  /\ service \in Services
  /\ upstream \in (IF service = "trial" THEN Listings ELSE { << >> })
  /\ pc = [r \in Reqs |-> "idle"]
  /\ req = [r \in Reqs |-> [route |-> "", body |-> EmptyBody]]
  /\ ctx = [r \in Reqs |-> EmptyCtx]
  /\ name = [r \in Reqs |-> None]
  /\ distance = [r \in Reqs |-> None]
  /\ star_id = [r \in Reqs |-> 0]
  /\ new_star = [r \in Reqs |-> {}]
  /\ jobs_info = [r \in Reqs |-> << >>]
  /\ item = [r \in Reqs |-> 0]
  /\ store = {}
  /\ nextId = 1
  /\ response = [r \in Reqs |-> NoResponse]

\* ---- request entry ----

\* a request for a registered route arrives; the instrumented app opens its root span
Receive(r) ==
  /\ pc[r] = "idle"
  /\ \E route \in Routes(service) : \E body \in Bodies(route) :
       req' = [req EXCEPT ![r] = [route |-> route, body |-> body]]
  /\ ctx' = [ctx EXCEPT ![r] = start_as_current_span(EmptyCtx, "root")]
  /\ pc' = [pc EXCEPT ![r] = "recv"]
  /\ UNCHANGED << env, starLocals, traceLocals, store, nextId, response >>

At(r, route) == pc[r] = "recv" /\ req[r].route = route

\* ---- fixed routes ----

homepage(r) ==
  /\ At(r, "/")
  /\ IF service = "frontend"
     THEN Send(r, exit_current(start_as_current_span(ctx[r], "homepage")), 200, "main.html")
     ELSE IF service = "trial"
     THEN Send(r, ctx[r], 200, "main.html")
     ELSE Send(r, ctx[r], 200, "Hello World")
  /\ UNCHANGED << env, req, starLocals, traceLocals, store, nextId >>

my_api(r) ==
  /\ At(r, "/api")
  /\ Send(r, exit_current(start_as_current_span(ctx[r], "my-api")), 200,
          [response |-> "something"])
  /\ UNCHANGED << env, req, starLocals, traceLocals, store, nextId >>

client_success_page(r) ==
  /\ At(r, "/success-response")
  /\ Send(r, ctx[r], 200, "Planned 200 response")
  /\ UNCHANGED << env, req, starLocals, traceLocals, store, nextId >>

client_error_page(r) ==
  /\ At(r, "/client-error")
  /\ Send(r, ctx[r], 400, "Planned 400 error")
  /\ UNCHANGED << env, req, starLocals, traceLocals, store, nextId >>

\* the planned error sent with the default status
server_error_page_ok(r) ==
  /\ At(r, "/server-error")
  /\ Send(r, ctx[r], 200, "Planned 500 error")
  /\ UNCHANGED << env, req, starLocals, traceLocals, store, nextId >>

server_error_page(r) ==
  /\ At(r, "/server-error")
  /\ Send(r, ctx[r], 500, "Planned 500 error")
  /\ UNCHANGED << env, req, starLocals, traceLocals, store, nextId >>

\* ---- POST /star ----

\* the document add_star inserts
StarDoc(id, nm, dist) == [_id |-> id, name |-> nm, distance |-> dist]

\* a find whose filter does not select on _id
find_one_any(coll, id) ==
  IF coll = {} THEN { {} } ELSE { {d} : d \in coll }

\* what star.find_one({"_id": id}) may return: a matching document, or None
find_one(coll, id) ==
  LET match == { d \in coll : d._id = id }
  IN IF match = {} THEN { {} } ELSE { {d} : d \in match }

\* the two fields of the answer taken from each other's key
Output_swapped(doc) == [name |-> doc.distance, distance |-> doc.name]

\* the dictionary add_star answers with
Output(doc) == [name |-> doc.name, distance |-> doc.distance]

\* new_star["name"] raises TypeError
NotSubscriptable(ns) == ns = {}

\* lines 87-91: open call-mongo, read both fields, open post-record-mongo
StarBegin(r) ==
  /\ At(r, "/star")
  /\ LET c == start_as_current_span(ctx[r], "call-mongo")
         body == req[r].body
     IN IF KeyError(body, "name")
        THEN /\ Raise(r, exit_current(c))
             /\ UNCHANGED << name, distance >>
        ELSE IF KeyError(body, "distance")
        THEN /\ name' = [name EXCEPT ![r] = GetItem(body, "name")]
             /\ Raise(r, exit_current(c))
             /\ UNCHANGED distance
        ELSE /\ name' = [name EXCEPT ![r] = GetItem(body, "name")]
             /\ distance' = [distance EXCEPT ![r] = GetItem(body, "distance")]
             /\ ctx' = [ctx EXCEPT ![r] = start_as_current_span(c, "post-record-mongo")]
             /\ pc' = [pc EXCEPT ![r] = "insert"]
             /\ UNCHANGED response
  /\ UNCHANGED << env, req, star_id, new_star, traceLocals, store, nextId >>

\* line 92: star.insert(...) returns the new document's id, or raises
StarInsert(r) ==
  /\ pc[r] = "insert"
  /\ \/ /\ store' = store \cup { StarDoc(nextId, name[r], distance[r]) }
        /\ star_id' = [star_id EXCEPT ![r] = nextId]
        /\ nextId' = nextId + 1
        /\ ctx' = [ctx EXCEPT ![r] = Emit(@, Ev("insert", @.current, "ok"))]
        /\ pc' = [pc EXCEPT ![r] = "find"]
        /\ UNCHANGED response
     \/ /\ Raise(r, exit_current(exit_current(
                      Emit(ctx[r], Ev("insert", ctx[r].current, "raise")))))
        /\ UNCHANGED << store, star_id, nextId >>
  /\ UNCHANGED << env, req, name, distance, new_star, traceLocals >>

\* lines 93-94: open get-record-mongo, star.find_one(...), leave both inner blocks
StarFind(r) ==
  /\ pc[r] = "find"
  /\ LET c == start_as_current_span(ctx[r], "get-record-mongo")
         Found(ns, res) ==
           /\ new_star' = [new_star EXCEPT ![r] = ns]
           /\ ctx' = [ctx EXCEPT ![r] =
                        exit_current(exit_current(Emit(c, Ev("find", c.current, res))))]
           /\ pc' = [pc EXCEPT ![r] = "output"]
           /\ UNCHANGED response
     IN \/ \E ns \in find_one(store, star_id[r]) :
             Found(ns, IF ns = {} THEN "none" ELSE "ok")
        \/ Found({}, "none")
        \/ /\ Raise(r, exit_current(exit_current(exit_current(
                         Emit(c, Ev("find", c.current, "raise"))))))
           /\ UNCHANGED new_star
  /\ UNCHANGED << env, req, name, distance, star_id, traceLocals, store, nextId >>

\* lines 95-96: build output, leave call-mongo, answer
StarOutput(r) ==
  /\ pc[r] = "output"
  /\ IF NotSubscriptable(new_star[r])
     THEN Raise(r, exit_current(ctx[r]))
     ELSE \E doc \in new_star[r] :
            Send(r, exit_current(ctx[r]), 200, [result |-> Output(doc)])
  /\ UNCHANGED << env, req, starLocals, traceLocals, store, nextId >>

\* ---- GET /trace (trial) ----

\* position of the first ">" of text after its first character, 0 if there is none
FirstClose(text) ==
  LET close == { k \in 2 .. Len(text) : text[k] = ">" }
  IN IF close = {} THEN 0 ELSE CHOOSE k \in close : \A j \in close : k <= j

\* re.compile(r"<[^>]+>").sub("", text)
RECURSIVE remove_tags(_)
remove_tags(text) ==
  IF text = << >> THEN << >>
  ELSE IF Head(text) = "<" /\ FirstClose(text) >= 3
  THEN remove_tags(SubSeq(text, FirstClose(text) + 1, Len(text)))
  ELSE << Head(text) >> \o remove_tags(Tail(text))

\* the value the try block stores under key k
JobValue(result, k) ==
  IF k = "description" THEN remove_tags(GetItem(result, k)) ELSE GetItem(result, k)

\* the jobs dictionary once every key is copied
Job(result) == [ k \in JobKeySet |-> JobValue(result, k) ]

\* the try block raises: some key it reads is missing
TryRaises(result) == \E k \in JobKeySet : KeyError(result, k)

\* the span get-python-jobs of a /trace request: the first the handler starts
JobsSpan == 2

\* lines 79-84: open get-python-jobs, fetch the listing, log and tag its length
TraceBegin(r) ==
  /\ At(r, "/trace")
  /\ LET c == start_span(ctx[r], "get-python-jobs")
     IN \/ /\ ctx' = [ctx EXCEPT ![r] =
                        Emit(Emit(Emit(c, Ev("fetch", Len(upstream), "ok")),
                                  Ev("log_kv", JobsSpan, "get jobs count")),
                             Ev("set_tag", JobsSpan, "jobs-count"))]
           /\ jobs_info' = [jobs_info EXCEPT ![r] = << >>]
           /\ item' = [item EXCEPT ![r] = 1]
           /\ pc' = [pc EXCEPT ![r] = "loop"]
           /\ UNCHANGED response
        \/ /\ Raise(r, exit_span(Emit(c, Ev("fetch", 0, "raise")), JobsSpan))
           /\ UNCHANGED traceLocals
  /\ UNCHANGED << env, req, starLocals, store, nextId >>

\* lines 85-106: one iteration of the loop over res.json()
TraceItem(r) ==
  /\ pc[r] = "loop"
  /\ item[r] <= Len(upstream)
  /\ LET result == upstream[item[r]]
         c == start_span(ctx[r], "request-site")
         site == Len(c.spans)
         Tags(d) == Emit(Emit(d, Ev("set_tag", site, "http.status_code")),
                         Ev("set_tag", site, "company-site"))
         Abort(d) == /\ Raise(r, exit_span(exit_span(d, site), JobsSpan))
                     /\ UNCHANGED traceLocals
         Continue(d) == /\ ctx' = [ctx EXCEPT ![r] = exit_span(d, site)]
                        /\ item' = [item EXCEPT ![r] = @ + 1]
                        /\ UNCHANGED << pc, response >>
     IN IF KeyError(result, "company")
        THEN Abort(c)
        ELSE LET info == Emit(c, Ev("log", item[r], "info"))
             IN IF ~ TryRaises(result)
                THEN /\ jobs_info' = [jobs_info EXCEPT ![r] = Append(@, Job(result))]
                     /\ Continue(Tags(info))
                ELSE IF KeyError(result, "company")
                THEN Abort(info)
                ELSE /\ Continue(Tags(Emit(info, Ev("log", item[r], "error"))))
                     /\ UNCHANGED jobs_info
  /\ UNCHANGED << env, req, starLocals, store, nextId >>

\* line 107: the loop is over, leave get-python-jobs, answer
TraceEnd(r) ==
  /\ pc[r] = "loop"
  /\ item[r] > Len(upstream)
  /\ Send(r, exit_span(ctx[r], JobsSpan), 200, jobs_info[r])
  /\ UNCHANGED << env, req, starLocals, traceLocals, store, nextId >>

Next ==
  \E r \in Reqs :
    \/ Receive(r)
    \/ homepage(r)
    \/ my_api(r)
    \/ client_success_page(r)
    \/ client_error_page(r)
    \/ server_error_page(r)
    \/ StarBegin(r)
    \/ StarInsert(r)
    \/ StarFind(r)
    \/ StarOutput(r)
    \/ TraceBegin(r)
    \/ TraceItem(r)
    \/ TraceEnd(r)

Spec == Init /\ [][Next]_vars

\* the backend service alone
InitBackend == Init /\ service = "backend"

NextBackend ==
  \E r \in Reqs :
    \/ Receive(r)
    \/ homepage(r)
    \/ my_api(r)
    \/ client_success_page(r)
    \/ client_error_page(r)
    \/ server_error_page(r)
    \/ StarBegin(r)
    \/ StarInsert(r)
    \/ StarFind(r)
    \/ StarOutput(r)

SpecBackend == InitBackend /\ [][NextBackend]_vars

\* ---- reading a request's record ----

Events(r) == ctx[r].events

EvIdx(r, op) == { i \in 1 .. Len(Events(r)) : Events(r)[i].op = op }

Has(r, op, res) == \E i \in EvIdx(r, op) : Events(r)[i].res = res

Done(r, route) == pc[r] = "done" /\ req[r].route = route

IsStar(r) == pc[r] # "idle" /\ req[r].route = "/star"

FullBody(r) == StarKeys \subseteq DOMAIN req[r].body

\* every document of the store was inserted by a request other than r
WrittenByOthers(r) == \A d \in store : \E q \in Reqs \ {r} : d._id = star_id[q]

\* the spans of request r started before event i and not ended before it
OpenAt(r, i) ==
  { s \in 1 .. Len(ctx[r].spans) :
      \E j \in 1 .. i - 1 :
        /\ Events(r)[j].op = "start" /\ Events(r)[j].n = s
        /\ \A k \in j + 1 .. i - 1 : ~ (Events(r)[k].op = "end" /\ Events(r)[k].n = s) }

OpenNames(r, i) == { ctx[r].spans[s].name : s \in OpenAt(r, i) }

Max(S) == CHOOSE m \in S : \A n \in S : n <= m

\* ---- claims ----

\* C1: a POST /star whose body has name and distance, with the insert and the
\* find both answered by the store, inserts exactly one record, reads back the
\* record of the id that insert returned, and answers 200 with the submitted
\* name and distance.
C1_RoundTrip ==
  \A r \in Reqs :
    (Done(r, "/star") /\ FullBody(r) /\ Has(r, "insert", "ok") /\ Has(r, "find", "ok"))
    => /\ response[r].status = 200
       /\ response[r].body =
            [result |-> [name |-> req[r].body.name, distance |-> req[r].body.distance]]
       /\ Cardinality(EvIdx(r, "insert")) = 1
       /\ new_star[r] = { StarDoc(star_id[r], req[r].body.name, req[r].body.distance) }
       /\ new_star[r] \subseteq store

C1_Witness ==
  \E r \in Reqs :
    /\ Done(r, "/star") /\ Has(r, "insert", "ok") /\ Has(r, "find", "ok")
    /\ response[r].status = 200
    /\ req[r].body.name = "Vega"

\* C2: a POST /star whose body lacks name or distance is answered with a 4xx status.
C2_MissingFieldIs4xx ==
  \A r \in Reqs :
    (Done(r, "/star") /\ ~ FullBody(r)) => response[r].status \in 400 .. 499

\* C3: a POST /star whose body lacks name or distance writes nothing: it calls
\* no insert, holds no id, and every record of the store is another request's.
C3_NoWriteOnMissingField ==
  \A r \in Reqs :
    (IsStar(r) /\ ~ FullBody(r))
    => EvIdx(r, "insert") = {} /\ star_id[r] = 0 /\ WrittenByOthers(r)

C3_Witness ==
  \E r \in Reqs :
    /\ Done(r, "/star") /\ DOMAIN req[r].body = {"name"}
    /\ store # {}

\* C4: in every service /success-response, /client-error and /server-error
\* answer 200, 400 and 500, whatever the body and whatever requests came before,
\* and the handler opens no span and makes no store or upstream call.
C4_FixedStatus ==
  \A r \in Reqs :
    pc[r] = "done" =>
      /\ req[r].route = "/success-response" => response[r].status = 200
      /\ req[r].route = "/client-error" => response[r].status = 400
      /\ req[r].route = "/server-error" => response[r].status = 500
      /\ req[r].route \in FixedRoutes =>
           /\ Len(ctx[r].spans) = 1
           /\ \A i \in 1 .. Len(Events(r)) : Events(r)[i].op \in {"start", "respond", "end"}
           /\ name[r] = None /\ distance[r] = None /\ star_id[r] = 0
           /\ new_star[r] = {} /\ jobs_info[r] = << >> /\ item[r] = 0

C4_Witness ==
  \E r \in Reqs : \E q \in Reqs \ {r} :
    /\ service = "trial"
    /\ Done(q, "/trace") /\ response[q].status = 200 /\ Len(response[q].body) > 0
    /\ Done(r, "/server-error") /\ req[r].body # EmptyBody

\* C5: when exactly one posting of the fetched listing lacks a key the handler
\* reads, /trace answers 200 with the other postings in upstream order and has
\* logged an error for the malformed one.
C5_OneMalformedItem ==
  \A r \in Reqs :
    LET bad == { n \in 1 .. Len(upstream) : TryRaises(upstream[n]) }
        good == SelectSeq(upstream, LAMBDA p : ~ TryRaises(p))
    IN (Done(r, "/trace") /\ Has(r, "fetch", "ok") /\ Cardinality(bad) = 1)
       => /\ response[r].status = 200
          /\ response[r].body = [ n \in 1 .. Len(good) |-> Job(good[n]) ]
          /\ \A n \in bad :
               \E i \in EvIdx(r, "log") : Events(r)[i].n = n /\ Events(r)[i].res = "error"

\* the span whose with-block encloses the with-block of span nm in the source
LexicalParent(nm) ==
  CASE nm = "post-record-mongo" -> "call-mongo"
    [] nm = "get-record-mongo"  -> "post-record-mongo"
    [] nm = "request-site"      -> "get-python-jobs"
    [] OTHER                    -> "root"

\* C9: every span a handler opens has the lexically enclosing span as its parent
\* and carries the trace identifier of the request's root span.
C9_LexicalNesting ==
  \A r \in Reqs : \A s \in 2 .. Len(ctx[r].spans) :
    LET sp == ctx[r].spans[s]
    IN /\ sp.parent # 0
       /\ sp.trace = ctx[r].spans[1].trace
       /\ ctx[r].spans[sp.parent].name = LexicalParent(sp.name)

\* C7: a POST /star with both fields whose insert raised, whose find raised or
\* whose find returned nothing is answered with an error status and no result;
\* when the insert raised, the request holds no id, made no find, and every
\* record of the store is another request's.
C7_StoreFailure ==
  \A r \in Reqs :
    (Done(r, "/star") /\ FullBody(r)
       /\ (Has(r, "insert", "raise") \/ Has(r, "find", "raise") \/ Has(r, "find", "none")))
    => /\ response[r].status \in 400 .. 599
       /\ response[r].body = "Internal Server Error"
       /\ Has(r, "insert", "raise") =>
            star_id[r] = 0 /\ EvIdx(r, "find") = {} /\ WrittenByOthers(r)

C7_Witness ==
  \E r \in Reqs : \E q \in Reqs \ {r} :
    /\ Done(r, "/star") /\ Has(r, "insert", "raise")
    /\ Done(q, "/star") /\ Has(q, "find", "none")
    /\ store # {}

\* C8: in POST /star the spans call-mongo, post-record-mongo and get-record-mongo
\* start in that order, the insert runs with post-record-mongo innermost and the
\* find with get-record-mongo innermost, a span ends only as the innermost open
\* span and ends once, and when the response is produced only the root span is open.
C8_SpanLifecycle ==
  \A r \in Reqs :
    IsStar(r) =>
      LET E == Events(r)
          sp == ctx[r].spans
          order == << "root", "call-mongo", "post-record-mongo", "get-record-mongo" >>
      IN /\ Len(sp) <= Len(order)
         /\ \A s \in 1 .. Len(sp) : sp[s].name = order[s]
         /\ \A i \in 1 .. Len(E) :
              /\ E[i].op = "insert" =>
                   OpenNames(r, i) = {"root", "call-mongo", "post-record-mongo"}
              /\ E[i].op = "find" =>
                   OpenNames(r, i) =
                     {"root", "call-mongo", "post-record-mongo", "get-record-mongo"}
              /\ E[i].op = "end" =>
                   OpenAt(r, i) # {} /\ E[i].n = Max(OpenAt(r, i))
              /\ E[i].op = "respond" => OpenAt(r, i) = {1}
         /\ pc[r] = "done" =>
              /\ OpenAt(r, Len(E) + 1) = {}
              /\ Cardinality(EvIdx(r, "respond")) = 1
              /\ Cardinality(EvIdx(r, "end")) = Len(sp)

C8_Witness ==
  \E r \in Reqs :
    /\ Done(r, "/star") /\ Has(r, "find", "raise")
    /\ Len(ctx[r].spans) = 4

\* the steps of request r
Step(r) ==
  \/ homepage(r) \/ my_api(r)
  \/ client_success_page(r) \/ client_error_page(r) \/ server_error_page(r)
  \/ StarBegin(r) \/ StarInsert(r) \/ StarFind(r) \/ StarOutput(r)

C10_State ==
  /\ \A r \in Reqs :
       (Done(r, "/star") /\ response[r].status = 200) =>
         /\ response[r].body = [result |-> Restrict(req[r].body, StarKeys)]
         /\ new_star[r] = { StarDoc(star_id[r], name[r], distance[r]) }
  /\ \A r \in Reqs : \A q \in Reqs \ {r} : star_id[r] # 0 => star_id[r] # star_id[q]
  /\ LET wrote == { r \in Reqs : Has(r, "insert", "ok") }
     IN /\ store = { StarDoc(star_id[r], name[r], distance[r]) : r \in wrote }
        /\ Cardinality(store) = Cardinality(wrote)
  /\ \A r \in Reqs : pc[r] \notin {"idle", "done"} => ENABLED Step(r)

\* C10: under any interleaving of the insert and find steps of concurrent POST
\* /star requests, each request reads back the record it inserted and answers
\* with its own name and distance, ids are distinct, the store holds exactly one
\* record per successful insert and only grows, and every request in flight can
\* take its next step whatever the others are doing.
C10_Isolation == [] C10_State /\ [][store \subseteq store']_vars

\* a request inserted after q did, found its record and answered, while q
\* still has its find ahead
C10_Witness ==
  \E r \in Reqs : \E q \in Reqs \ {r} :
    /\ Done(r, "/star") /\ response[r].status = 200
    /\ pc[q] = "find"
    /\ star_id[q] # 0 /\ star_id[q] < star_id[r]
    /\ name[q] # name[r]

====
